---- MODULE Spec2Model ----
(***************************************************************************)
(* Deep-equality engine of src/src/homework/homework-2.ts: three built-in  *)
(* comparators (primitive, array, object), the dispatching engine with its *)
(* WeakSet guard `visited`, and addComparator.                             *)
(*                                                                         *)
(* Values are strings: the primitives "1", "NaN", "null", "undefined" and  *)
(* the object references "r1".."r4".  The heap maps every reference to the *)
(* array or plain object stored there; object keys are kept in insertion   *)
(* order, as Object.keys reports them.                                     *)
(***************************************************************************)
EXTENDS Integers, Sequences, FiniteSets, TLC

VARIABLES heap, comparators, visited, expanded, last

vars == <<heap, comparators, visited, expanded, last>>

\* ------------------------------------------------------------------ bounds
\* Custom comparators one engine gets registered.
MaxCustom == 1
\* Nested deepEqual frames before the host raises RangeError.
StackLimit == 12

\* ------------------------------------------------------------------ values
Refs == {"r1", "r2", "r3", "r4"}
Prims == {"1", "NaN", "null", "undefined"}
Values == Prims \cup Refs

\* typeof value
TypeOf(v) ==
    IF v \in Refs \/ v = "null" THEN "object"
    ELSE IF v = "undefined" THEN "undefined"
    ELSE "number"

\* Array.isArray(value)
IsArray(v) == v \in Refs /\ heap[v].kind = "array"

\* value == null (loose: null and undefined)
IsNullish(v) == v \in {"null", "undefined"}

\* a === b : identity on references, value equality on primitives, NaN
\* unequal to everything including itself
StrictEquals(a, b) == a = b /\ a # "NaN"

\* a.length / Object.keys(a) / a[key]
Items(r) == heap[r].items
ObjectKeys(r) == heap[r].keys
Includes(s, x) == \E i \in 1..Len(s) : s[i] = x
Get(r, key) ==
    LET i == CHOOSE i \in 1..Len(heap[r].keys) : heap[r].keys[i] = key
    IN  heap[r].vals[i]

\* ------------------------------------------------------------- comparators
BuiltIn == <<"Primitive", "Array", "Object">>
\* The comparator a caller may register: it accepts arrays and looks at the
\* other side's shape only.
Custom == {"ShallowArray"}

\* the primitive predicate written with typeof alone
PrimitiveCanHandleTypeofOnly(v) == TypeOf(v) # "object"

PrimitiveCanHandle(v) == IsNullish(v) \/ TypeOf(v) # "object"
ArrayCanHandle(v) == IsArray(v)
ObjectCanHandle(v) == ~IsNullish(v) /\ TypeOf(v) = "object" /\ ~IsArray(v)

CanHandle(c, v) ==
    CASE c = "Primitive" -> PrimitiveCanHandle(v)
      [] c = "Array" -> ArrayCanHandle(v)
      [] c = "Object" -> ObjectCanHandle(v)
      [] c = "ShallowArray" -> IsArray(v)

\* this.comparators.find(comp => comp.canHandle(value)), from position i;
\* "none" for undefined
RECURSIVE FindFrom(_, _, _)
FindFrom(cs, v, i) ==
    IF i > Len(cs) THEN "none"
    ELSE IF CanHandle(cs[i], v) THEN cs[i]
    ELSE FindFrom(cs, v, i + 1)

FindComparator(cs, v) == FindFrom(cs, v, 1)

\* ------------------------------------------------------------------ engine
\* A call context threads the engine's mutable state and what the call did:
\* visited, the number of deepEqual frames entered, the event log, and the
\* outcome (res when err = "none").
Return(cx, r) == [cx EXCEPT !.res = r]
Throw(cx, e) == [cx EXCEPT !.err = e, !.res = FALSE]
Log(cx, e) == [cx EXCEPT !.log = Append(@, e)]

PrimitiveCompare(a, b, cx) == Return(cx, StrictEquals(a, b))

ShallowArrayCompare(a, b, cx) == Return(cx, IsArray(b))

RECURSIVE DeepEqual(_, _, _, _, _)
RECURSIVE EveryItem(_, _, _, _, _, _)
RECURSIVE EveryKey(_, _, _, _, _, _)

\* a.every((item, index) => context.deepEqual(item, b[index])), from index i
EveryItem(a, b, i, cs, cx, d) ==
    IF i > Len(Items(a)) THEN Return(cx, TRUE)
    ELSE LET r == DeepEqual(Items(a)[i], Items(b)[i], cs, cx, d + 1)
         IN  IF r.err # "none" \/ ~r.res THEN r
             ELSE EveryItem(a, b, i + 1, cs, r, d)

ArrayCompare(a, b, cs, cx, d) ==
    IF ~IsArray(b) \/ Len(Items(a)) # Len(Items(b)) THEN Return(cx, FALSE)
    ELSE EveryItem(a, b, 1, cs, cx, d)

\* keysA.every(key => keysB.includes(key) && context.deepEqual(a[key], b[key]))
EveryKey(a, b, i, cs, cx, d) ==
    IF i > Len(ObjectKeys(a)) THEN Return(cx, TRUE)
    ELSE LET key == ObjectKeys(a)[i]
         IN  IF ~Includes(ObjectKeys(b), key) THEN Return(cx, FALSE)
             ELSE LET r == DeepEqual(Get(a, key), Get(b, key), cs, cx, d + 1)
                  IN  IF r.err # "none" \/ ~r.res THEN r
                      ELSE EveryKey(a, b, i + 1, cs, r, d)

ObjectCompare(a, b, cs, cx, d) ==
    IF TypeOf(b) # "object" \/ IsNullish(b) \/ IsArray(b) THEN Return(cx, FALSE)
    ELSE IF Len(ObjectKeys(a)) # Len(ObjectKeys(b)) THEN Return(cx, FALSE)
    ELSE EveryKey(a, b, 1, cs, cx, d)

Compare(c, a, b, cs, cx, d) ==
    CASE c = "Primitive" -> PrimitiveCompare(a, b, cx)
      [] c = "Array" -> ArrayCompare(a, b, cs, cx, d)
      [] c = "Object" -> ObjectCompare(a, b, cs, cx, d)
      [] c = "ShallowArray" -> ShallowArrayCompare(a, b, cx)

\* lines 88-94: select the comparator, throw when there is none, delegate
Dispatch(a, b, cs, cx, d) ==
    LET comparator == FindComparator(cs, a)
        found == Log(cx, <<"find", a, comparator>>)
    IN  IF comparator = "none" THEN Throw(found, "NoComparator")
        ELSE Compare(comparator, a, b, cs,
                     Log(found, <<"compare", a, comparator>>), d)

\* the guard that forgets to record the value
GuardNoAdd(a, b, cs, cx, d) ==
    IF TypeOf(a) = "object" /\ a # "null"
    THEN IF a \in cx.visited
         THEN Return(Log(cx, <<"has", a, "hit">>), StrictEquals(a, b))
         ELSE Dispatch(a, b, cs, cx, d)
    ELSE Dispatch(a, b, cs, cx, d)

\* the guard that answers true for every value seen before
GuardHitTrue(a, b, cs, cx, d) ==
    IF TypeOf(a) = "object" /\ a # "null"
    THEN IF a \in cx.visited
         THEN Return(Log(cx, <<"has", a, "hit">>), TRUE)
         ELSE Dispatch(a, b, cs,
                       [Log(cx, <<"add", a, "new">>)
                           EXCEPT !.visited = @ \cup {a}], d)
    ELSE Dispatch(a, b, cs, cx, d)

\* the guard that answers false for every value seen before
GuardHitFalse(a, b, cs, cx, d) ==
    IF TypeOf(a) = "object" /\ a # "null"
    THEN IF a \in cx.visited
         THEN Return(Log(cx, <<"has", a, "hit">>), FALSE)
         ELSE Dispatch(a, b, cs,
                       [Log(cx, <<"add", a, "new">>)
                           EXCEPT !.visited = @ \cup {a}], d)
    ELSE Dispatch(a, b, cs, cx, d)

\* lines 81-86: the guard
Guard(a, b, cs, cx, d) ==
    IF TypeOf(a) = "object" /\ a # "null"
    THEN IF a \in cx.visited
         THEN Return(Log(cx, <<"has", a, "hit">>), StrictEquals(a, b))
         ELSE Dispatch(a, b, cs,
                       [Log(cx, <<"add", a, "new">>)
                           EXCEPT !.visited = @ \cup {a}], d)
    ELSE Dispatch(a, b, cs, cx, d)

\* deepEqual(a, b) entered at stack depth d
DeepEqual(a, b, cs, cx, d) ==
    IF d > StackLimit THEN Throw(cx, "RangeError")
    ELSE Guard(a, b, cs, [cx EXCEPT !.calls = @ + 1], d)

Entry(vis) ==
    [visited |-> vis, calls |-> 0, log |-> <<>>, res |-> FALSE, err |-> "none"]

\* one top-level engine.deepEqual(a, b)
Call(a, b, cs, vis) == DeepEqual(a, b, cs, Entry(vis), 1)

\* -------------------------------------------------------------------- heap
Arr(s) == [kind |-> "array", items |-> s]
Obj(ks, vs) == [kind |-> "object", keys |-> ks, vals |-> vs]

Children(r) == IF heap[r].kind = "array" THEN heap[r].items ELSE heap[r].vals

\* The values the callers hand to the engine.  r1 and r2 are containers over
\* r3 and r4 (a sub-value may occur twice, keys may come in either order);
\* r3 and r4 are small arrays and objects, among them the self-referential
\* {a: 1, b: <itself>} of the demonstration and an array that points back
\* at r1.
Heaps ==
    {[r \in Refs |->
        CASE r = "r1" -> o1 [] r = "r2" -> o2 [] r = "r3" -> o3 [] r = "r4" -> o4] :
        o1 \in {Arr(<<"r3", "r3">>), Arr(<<"r3", "r4">>),
                Obj(<<"a", "b">>, <<"r3", "r4">>)},
        o2 \in {Arr(<<"r3", "r4">>), Arr(<<"r4", "r4">>),
                Obj(<<"b", "a">>, <<"r4", "r3">>)},
        o3 \in {Arr(<<"1">>), Arr(<<"NaN">>), Obj(<<"a">>, <<"1">>),
                Obj(<<"a", "b">>, <<"1", "r3">>)},
        o4 \in {Arr(<<>>), Arr(<<"1">>), Obj(<<"b">>, <<"1">>),
                Arr(<<"r1">>)}}

\* -------------------------------------------------------------- operations
\* `last` is the call the user of the engine made last and what it gave;
\* "idle" once the result has been taken.
Idle == [op |-> "idle", a |-> "undefined", b |-> "undefined",
         pre |-> {}, cs |-> BuiltIn, out |-> Entry({})]

\* comparator.compare invocations of one call that had reference r on the left
Expansions(log, r) ==
    Cardinality({i \in 1..Len(log) : log[i][1] = "compare" /\ log[i][2] = r})

Min(x, y) == IF x < y THEN x ELSE y

\* new DeepEqualEngine()
Init ==
    /\ heap \in Heaps
    /\ comparators = BuiltIn
    /\ visited = {}
    /\ expanded = [r \in Refs |-> 0]
    /\ last = Idle

\* engine.deepEqual(a, b) called by the user of the engine
CompareDeep(a, b) ==
    LET out == Call(a, b, comparators, visited)
    IN  /\ last.op = "idle"
        /\ visited' = out.visited
        /\ expanded' = [r \in Refs |->
                            Min(2, expanded[r] + Expansions(out.log, r))]
        /\ last' = [op |-> "deepEqual", a |-> a, b |-> b,
                    pre |-> visited, cs |-> comparators, out |-> out]
        /\ UNCHANGED <<heap, comparators>>

\* engine.addComparator(c)
AddComparator(c) ==
    /\ last.op = "idle"
    /\ Len(comparators) < Len(BuiltIn) + MaxCustom
    /\ comparators' = <<c>> \o comparators
    /\ last' = [op |-> "addComparator", a |-> c, b |-> "undefined",
                pre |-> visited, cs |-> comparators, out |-> Entry(visited)]
    /\ UNCHANGED <<heap, visited, expanded>>

\* the caller takes the result (test: log it and return it)
Report ==
    /\ last.op # "idle"
    /\ last' = Idle
    /\ UNCHANGED <<heap, comparators, visited, expanded>>

Next ==
    \/ \E a, b \in Values : CompareDeep(a, b)
    \/ \E c \in Custom : AddComparator(c)
    \/ Report

Spec == Init /\ [][Next]_vars

\* ------------------------------------------------------------- vocabulary
IsCall == last.op = "deepEqual"
Default == last.cs = BuiltIn
Fresh == last.pre = {} /\ last.cs = BuiltIn
Ok == last.out.err = "none"

Shape(v) ==
    IF v \in Prims THEN "primitive"
    ELSE IF heap[v].kind = "array" THEN "array" ELSE "map"

RECURSIVE Closure(_)
Closure(S) ==
    LET T == S \cup {c \in Refs : \E r \in S : Includes(Children(r), c)}
    IN  IF T = S THEN S ELSE Closure(T)

\* references reachable from v, v included / in one step or more
Reach(v) == Closure({v} \cap Refs)
Below(r) == Closure({c \in Refs : Includes(Children(r), c)})

Acyclic(v) == \A r \in Reach(v) : r \notin Below(r)
NaNFree(v) == v # "NaN" /\ \A r \in Reach(v) : ~Includes(Children(r), "NaN")

\* Recursive equivalence in shape and content, as the largest relation R
\* with: primitives strictly equal; arrays of equal length with elements
\* pairwise in R; maps with the same key set and values in R under every key.
KeySet(r) == {heap[r].keys[i] : i \in 1..Len(heap[r].keys)}

Match(x, y, R) ==
    IF x \in Prims \/ y \in Prims
    THEN x \in Prims /\ y \in Prims /\ x = y /\ x # "NaN"
    ELSE IF heap[x].kind # heap[y].kind THEN FALSE
    ELSE IF heap[x].kind = "array"
    THEN /\ Len(heap[x].items) = Len(heap[y].items)
         /\ \A i \in 1..Len(heap[x].items) :
                <<heap[x].items[i], heap[y].items[i]>> \in R
    ELSE /\ KeySet(x) = KeySet(y)
         /\ \A k \in KeySet(x) : <<Get(x, k), Get(y, k)>> \in R

RECURSIVE Gfp(_)
Gfp(R) ==
    LET T == {p \in R : Match(p[1], p[2], R)}
    IN  IF T = R THEN R ELSE Gfp(T)

Equivalent(x, y) == <<x, y>> \in Gfp(Values \X Values)

RECURSIVE SumChildren(_)
SumChildren(S) ==
    IF S = {} THEN 0
    ELSE LET r == CHOOSE r \in S : TRUE
         IN  Len(Children(r)) + SumChildren(S \ {r})

Events(kind) ==
    {i \in 1..Len(last.out.log) : last.out.log[i][1] = kind}

\* ------------------------------------------------------------------ claims

\* C1: on a fresh engine with the built-in comparators, for acyclic a and b
\* (sub-values possibly shared), deepEqual(a, b) is true exactly when a and b
\* are recursively equivalent in shape and content.
C1_DeepEqualIsEquivalence ==
    (IsCall /\ Fresh /\ Acyclic(last.a) /\ Acyclic(last.b))
        => (Ok /\ (last.out.res <=> Equivalent(last.a, last.b)))

\* C2 as stated: with the built-in comparators deepEqual(v, v) is true for
\* every value v, acyclic or cyclic.
C2_ReflexiveForEveryValue ==
    (IsCall /\ Default /\ last.a = last.b) => (Ok /\ last.out.res)

\* C2 as amended: with the built-in comparators deepEqual(v, v) is true for
\* every value v, acyclic or cyclic, in which no NaN occurs.
C2_ReflexiveWithoutNaN ==
    (IsCall /\ Default /\ last.a = last.b /\ NaNFree(last.a))
        => (Ok /\ last.out.res)

C2_Witness ==
    /\ IsCall /\ Default /\ last.a = last.b
    /\ last.a \in Refs /\ ~Acyclic(last.a) /\ NaNFree(last.a)
    /\ last.a \notin last.pre
    /\ Ok /\ last.out.res

\* C3: for acyclic a and b of the same shape, deepEqual(a, b) on a fresh
\* default engine equals deepEqual(b, a) on another fresh default engine.
C3_Symmetric ==
    (IsCall /\ Fresh /\ Acyclic(last.a) /\ Acyclic(last.b)
        /\ Shape(last.a) = Shape(last.b))
        => last.out.res = Call(last.b, last.a, BuiltIn, {}).res

\* C4: a top-level deepEqual(a, b) gives what a freshly constructed engine
\* with the same comparator list gives for (a, b), whatever calls came
\* before.
C4_IndependentOfEarlierCalls ==
    IsCall =>
        LET fresh == Call(last.a, last.b, last.cs, {})
        IN  last.out.res = fresh.res /\ last.out.err = fresh.err

\* C5: with the built-in comparators every deepEqual(a, b) returns a boolean
\* (no stack overflow) after at most one engine call per element or entry of
\* the composites it newly recorded, plus the top-level call, also on cyclic
\* values and whatever the guard set holds; no composite is expanded by a
\* comparator more than once per engine.
C5_Terminates ==
    (IsCall /\ Default) =>
        /\ Ok
        /\ last.out.calls <= 1 + SumChildren(visited \ last.pre)
        /\ \A r \in Refs : expanded[r] <= 1

C5_Witness ==
    /\ IsCall /\ Default
    /\ last.a \in Refs /\ ~Acyclic(last.a)
    /\ last.pre # {} /\ last.a \notin last.pre
    /\ Ok /\ last.out.calls > 2
    /\ expanded[last.a] = 1

\* C6: on a default engine in any guard-set state, deepEqual(a, b) of an
\* array and a map, or of a primitive and a composite, in either order,
\* returns false and raises nothing.
C6_CrossShapeIsFalse ==
    (IsCall /\ Default /\ Shape(last.a) # Shape(last.b))
        => (Ok /\ ~last.out.res)

C6_Witness ==
    /\ IsCall /\ Default
    /\ Shape(last.a) = "array" /\ Shape(last.b) = "map"
    /\ last.a \in last.pre
    /\ Ok /\ ~last.out.res

\* C7: addComparator(custom) puts custom at the head of the list and keeps
\* the earlier comparators in order behind it, and every later
\* deepEqual(a, b) whose a custom.canHandle accepts is decided by
\* custom.compare(a, b, engine), also for composites compared before.
C7_CustomDecides ==
    /\ last.op = "addComparator" => comparators = <<last.a>> \o last.cs
    /\ (IsCall /\ Len(last.cs) > Len(BuiltIn) /\ CanHandle(Head(last.cs), last.a))
        => /\ Events("compare") # {}
           /\ \E i \in Events("compare") :
                /\ \A j \in Events("compare") : i <= j
                /\ last.out.log[i] = <<"compare", last.a, Head(last.cs)>>
           /\ last.out.res =
                Compare(Head(last.cs), last.a, last.b, last.cs,
                        Entry(last.pre \cup ({last.a} \cap Refs)), 1).res

\* C8: every value is accepted by exactly one built-in predicate, the
\* built-ins stay at the tail of the list in their order, so in every state
\* findComparator finds a comparator for every value and no deepEqual
\* raises the no-comparator error.
C8_ComparatorAlwaysFound ==
    /\ \A v \in Values :
            LET n(c) == IF CanHandle(c, v) THEN 1 ELSE 0
            IN  n("Primitive") + n("Array") + n("Object") = 1
    /\ Len(comparators) >= Len(BuiltIn)
    /\ SubSeq(comparators, Len(comparators) - Len(BuiltIn) + 1,
              Len(comparators)) = BuiltIn
    /\ \A v \in Values : FindComparator(comparators, v) # "none"
    /\ last.out.err # "NoComparator"
    /\ \A i \in Events("find") : last.out.log[i][3] # "none"

C8_Witness ==
    /\ IsCall /\ Len(last.cs) > Len(BuiltIn) /\ Head(last.cs) = "ShallowArray"
    /\ last.a = "null"
    /\ Ok /\ Events("find") # {}

\* C9: the guard step of deepEqual(a, b).  A composite a already in the
\* guard set: the call returns whether a and b are the same reference,
\* selects and invokes no comparator, and leaves the guard set as it was.
\* A composite a not yet in it: a is added before the comparator is
\* selected.  A primitive a: the guard set is neither read nor changed.
\* Nothing is ever removed from the guard set.
C9_GuardStep ==
    /\ last.pre \subseteq visited
    /\ IsCall =>
        /\ (last.a \in Refs /\ last.a \in last.pre) =>
                /\ Ok /\ last.out.res = (last.a = last.b)
                /\ last.out.log = <<<<"has", last.a, "hit">>>>
                /\ last.out.calls = 1
                /\ visited = last.pre
        /\ (last.a \in Refs /\ last.a \notin last.pre) =>
                /\ last.a \in visited
                /\ Len(last.out.log) >= 2
                /\ last.out.log[1] = <<"add", last.a, "new">>
                /\ last.out.log[2][1] = "find" /\ last.out.log[2][2] = last.a
        /\ last.a \in Prims =>
                /\ visited = last.pre
                /\ Events("has") = {} /\ Events("add") = {}

C9_Witness ==
    /\ IsCall /\ last.a \in Refs /\ last.a \in last.pre
    /\ last.b \in Refs /\ last.b # last.a /\ Equivalent(last.a, last.b)
    /\ Ok /\ ~last.out.res

\* C10: on an engine with the built-in comparators, in any guard-set state,
\* a deepEqual(a, b) that returns true has structurally equivalent a and b,
\* and a fresh engine returns true for them as well (stale guard entries
\* turn results into false only).
C10_NoFalsePositive ==
    (IsCall /\ Default /\ Ok /\ last.out.res)
        => /\ Equivalent(last.a, last.b)
           /\ Call(last.a, last.b, BuiltIn, {}).res

====
